---- MODULE Spec2Model ----
(***************************************************************************)
(* One chat session of the orchestrator (handleChatSession) driving the    *)
(* model gateway (streamConversation) and the tool executor.               *)
(*                                                                         *)
(* Two versions of handleChatSession are modelled:                         *)
(*   - the fingerprint version of app/routes/chat.jsx                      *)
(*     (usedToolCalls, toolIterationCount, MAX_TOOL_ITERATIONS): Spec;     *)
(*   - the counter version of unnamed/part_003                             *)
(*     (toolCallCounts, totalToolCalls): SpecCounter.                      *)
(* LiveSpec is the fingerprint version with fairness, over saturating      *)
(* logs, so that a session that never ends shows as a cycle.               *)
(* SpecConcurrent adds a second session of the same conversation;          *)
(* SpecHistory and SpecRequest start from stored rows and from a submit    *)
(* request; SpecNormalize applies convertToOpenAIFormat to drawn           *)
(* histories; SpecFragments and SpecKeyOrder run the session against a     *)
(* provider that streams arguments in fragments, or lists the keys of an   *)
(* input in either order. SpecResults lets the backends return results of  *)
(* every shape; SpecSessions follows the guard state of a second           *)
(* invocation; SpecMessage draws the text of the submitted message;        *)
(* SpecArrivals assigns identifiers to two new conversations.              *)
(***************************************************************************)
EXTENDS Integers, Sequences, FiniteSets, TLC

VARIABLES
    mode,                \* "exact": logs are kept; "sat": logs are not kept
    arrivals,            \* submit requests without conversation_id, the clock, their logs
    pc,                  \* position of the session in handleChatSession
    mcpClient,           \* TRUE iff `new MCPClient(...)` returned
    useFallbackTools,
    sources,             \* what the two capability sources answered at discovery
    availableTools,      \* sequence of tool names offered to the model
    events,              \* events sent on the push channel, in order
    store,               \* Conversation Store: persisted turns of this conversation
    pendingSaves,        \* store writes started but not awaited (onMessage)
    dbFaults,            \* store operations that failed so far
    conversationHistory,
    productsToDisplay,
    toolIterationCount,  \* chat.jsx
    usedToolCalls,       \* chat.jsx
    toolCallCounts,      \* part_003
    totalToolCalls,      \* part_003
    needsContinuation,
    modelCalls,          \* streamConversation invocations of the session
    chunksRead,          \* provider chunks read (of the session; of the round in "sat")
    fullContent,
    finalMessage,
    toolCallsBuffer,
    pendingCalls,        \* buffered calls the for-loop of a 'tool_calls' finish still has to hand over
    onMessageCalls,      \* onMessage deliveries of the current streamConversation call
    roundDeltas,         \* non-empty text deltas the provider delivered in the current call
    roundStart,          \* number of events sent when the current call started
    convertedMessages,   \* the messages the current call gave to the provider
    roundChunks,         \* the chunks the provider delivered in the current call
    backendCalls,        \* real tool executions: backend contacted
    toolResult,          \* what the backend returned for the last call that succeeded
    formattedResult,     \* what onToolUse passed to handleToolSuccess for that call
    other,               \* a second session of the same conversation (its store operations)
    response,            \* answer of handleHistoryRequest
    request              \* the submit request: its body and the status it is answered with

vars == << mode, arrivals, pc, mcpClient, useFallbackTools, availableTools, events, store,
           pendingSaves, dbFaults, conversationHistory, productsToDisplay,
           toolIterationCount, usedToolCalls, toolCallCounts, totalToolCalls,
           needsContinuation, modelCalls, chunksRead, fullContent, finalMessage,
           toolCallsBuffer, pendingCalls, onMessageCalls, roundDeltas,
           roundStart, backendCalls, toolResult, formattedResult, other, response,
           sources, request,
           convertedMessages, roundChunks >>

-----------------------------------------------------------------------------
(* Bounds of the model *)

MaxChunks == 2       \* provider chunks read in one session
MaxDbFaults == 1     \* store operations that may fail in one session
MaxRows == 3         \* rows the store holds when a session starts (SpecHistory)
MaxClock == 2        \* milliseconds the clock advances (SpecArrivals)
MaxTurns == 3        \* turns of a history given to the model (SpecNormalize)
MaxFragments == 4    \* provider chunks read in one session (SpecFragments)
MaxOtherCalls == 2   \* tool-call requests the second session handles (SpecSessions)

(* Program constants *)

MAX_TOOL_ITERATIONS == 3
MAX_TOOL_CALLS_PER_TOOL == 2
MAX_TOTAL_TOOL_CALLS == 5

-----------------------------------------------------------------------------
(* Values *)

ConversationId == "conv1"
UserMessage == "hello"
SearchTool == "search_shop_catalog"
OrderTool == "get_order_status"
ToolNames == {SearchTool, OrderTool}
ApologyText == "I apologize, but I'm having trouble finding what you're looking for"
TroubleText == "I'm having trouble processing that request."
DuplicateText == "This search was already performed with no results."
MaxAttemptsText == "Maximum search attempts reached"

\* A JSON text is a sequence of tokens: "{", "}", and key/value members.
Open == [k |-> "{", v |-> ""]
Close == [k |-> "}", v |-> ""]
Member(k, v) == [k |-> k, v |-> v]
QueryX == Member("query", "x")
QueryY == Member("query", "y")

IsMember(t) == t.k \notin {"{", "}"}

\* Is `text` one complete JSON object?
WellFormed(text) ==
    /\ Len(text) >= 2
    /\ text[1] = Open
    /\ text[Len(text)] = Close
    /\ \A i \in 2..(Len(text) - 1) : IsMember(text[i])

\* JSON.parse of an object text: the members in order of first appearance of
\* their key, each with the value of the key's last appearance.
RECURSIVE ParseMembers(_, _)
ParseMembers(ms, seen) ==
    IF ms = << >> THEN << >>
    ELSE LET m == Head(ms) IN
         IF m.k \in seen THEN ParseMembers(Tail(ms), seen)
         ELSE LET same == { i \in 1..Len(ms) : ms[i].k = m.k }
                  last == CHOOSE i \in same : \A j \in same : j <= i
              IN << Member(m.k, ms[last].v) >> \o ParseMembers(Tail(ms), seen \cup {m.k})

JsonParse(text) == ParseMembers(SubSeq(text, 2, Len(text) - 1), {})

\* JSON.stringify of a parsed object: its members in insertion order.
JsonStringify(input) == << Open >> \o input \o << Close >>

\* A turn of the history. type "text": body is the text (a sequence of pieces);
\* type "tool_result": one tool_result block for call `id` with body as its content.
Turn(role, type, id, body) == [role |-> role, type |-> type, id |-> id, body |-> body]

\* The content column of a stored row is a string, here a sequence of tokens.
\* saveMessage is given the text of the user turn and of the apology as it
\* is, JSON.stringify(content) of a turn made of a tool_result block, and
\* JSON.stringify(message.content) of the assistant turn of onMessage (type
\* "stringified": the text between quotes).
Quote == "\""
Whitespace == " "
Stringify(turn) ==
    IF turn.type = "tool_result"
    THEN << "[", "tool_result", turn.id >> \o turn.body \o << "]" >>
    ELSE IF turn.type = "stringified"
    THEN << Quote >> \o turn.body \o << Quote >>
    ELSE turn.body

Row(turn) == [role |-> turn.role, content |-> Stringify(turn)]

\* content = JSON.parse(dbMessage.content), or the string itself when it does
\* not parse. JSON.parse ignores whitespace between tokens; a quoted string
\* parses to the string, an array of one tool_result block to that block.
StripSpace(raw) == SelectSeq(raw, LAMBDA t : t # Whitespace)

ParseContent(role, raw) ==
    LET r == StripSpace(raw) IN
    IF Len(r) >= 4 /\ r[1] = "[" /\ r[2] = "tool_result" /\ r[Len(r)] = "]"
    THEN Turn(role, "tool_result", r[3], SubSeq(r, 4, Len(r) - 1))
    ELSE IF Len(r) >= 2 /\ r[1] = "[" /\ r[Len(r)] = "]"
    THEN Turn(role, "array", "", SubSeq(r, 2, Len(r) - 1))
    ELSE IF Len(raw) >= 2 /\ raw[1] = Quote /\ raw[Len(raw)] = Quote
    THEN Turn(role, "text", "", SubSeq(raw, 2, Len(raw) - 1))
    ELSE Turn(role, "text", "", raw)

\* A value a backend result is made of: what typeof / Array.isArray tell about
\* it, and its JSON text.
StringValue(text) == [typeof |-> "string", json |-> text]
ArrayValue(text) == [typeof |-> "array", json |-> text]
Undefined == [typeof |-> "undefined", json |-> << >>]

ArrayOpen == [k |-> "[", v |-> ""]
ArrayClose == [k |-> "]", v |-> ""]

\* The JSON text of { products: [...] } with n products.
ProductsMember(n) == Member("products", ToString(n))
ProductsText(n) == JsonStringify(<< ProductsMember(n) >>)

\* A backend result without .error: its content, the JSON text of the whole
\* result object, and the number of products the backend found.
Result(content, json, n) == [content |-> content, json |-> json, products |-> n]

\* { content: '{"products":[...]}' }
StringResult(n) == Result(StringValue(ProductsText(n)), << >>, n)
\* { content: 'No matching products.' }: a string that is not JSON.
PlainResult(n) == Result(StringValue(<< Member("text", "plain") >>), << >>, n)
\* { content: [{ type: "text", text: JSON.stringify({ products, ... }) }] }
BlocksResult(n) ==
    Result(ArrayValue(<< ArrayOpen, Open, Member("type", "text"),
                         Member("text", ToString(n)), Close, ArrayClose >>), << >>, n)
\* { products: [...] }: no content field.
BareResult(n) == Result(Undefined, ProductsText(n), n)

NoResult == Result(Undefined, << >>, 0)
NoEnvelope == [content |-> << >>]

\* searchProductsFallback returns a block array; the external server any shape.
FallbackResults == { BlocksResult(n) : n \in {0, 1} }
McpResults == { make[n] : make \in { [m \in {0, 1} |-> StringResult(m)],
                                     [m \in {0, 1} |-> PlainResult(m)],
                                     [m \in {0, 1} |-> BlocksResult(m)],
                                     [m \in {0, 1} |-> BareResult(m)] },
                          n \in {0, 1} }
AllResults == FallbackResults \cup McpResults

\* A search that found a product, in the shape of the fallback search.
FoundResults == { BlocksResult(1) }

ContentResults(backend, results) ==
    IF backend = "fallback" THEN results \cap FallbackResults ELSE results

TextBlock(text) == [type |-> "text", text |-> text]
Envelope(text) == [content |-> << TextBlock(text) >>]

\* Mutant: the content is passed on as it is.
ResultTextUnconverted(result) == result.content

\* typeof toolResult.content === 'string' ? toolResult.content
\*   : JSON.stringify(toolResult.content || toolResult)
ResultText(result) ==
    IF result.content.typeof = "string" THEN result.content
    ELSE IF result.content.typeof # "undefined" THEN StringValue(result.content.json)
    ELSE StringValue(result.json)

DoNotSearchAgain == Member("instructions", "Do NOT attempt to search again")

\* parsedResult.products && parsedResult.products.length === 0, for the
\* value JSON.parse gives for the text: an object text parses to its members,
\* any other text has no products property (an array) or does not parse.
IsEmptySearch(text) ==
    /\ WellFormed(text.json)
    /\ \E i \in 1..Len(JsonParse(text.json)) : JsonParse(text.json)[i] = ProductsMember(0)

\* The text after the empty-search check of onToolUse.
WithInstructions(name, text) ==
    IF name = SearchTool /\ text.typeof = "string" /\ IsEmptySearch(text)
    THEN StringValue(JsonStringify(Append(JsonParse(text.json), DoNotSearchAgain)))
    ELSE text

\* formattedResult as passed to handleToolSuccess.
FormatResult(name, result) == Envelope(WithInstructions(name, ResultText(result)))

\* An event of the push channel.
Event(type, data) == [type |-> type, data |-> data, input |-> << >>]
ToolUseEvent(name, input) == [type |-> "tool_use", data |-> << name >>, input |-> input]

\* A log keeps everything in mode "exact" and nothing in mode "sat", where only
\* the control state of the session is followed.
Log(seq, x) == IF mode = "sat" THEN seq ELSE Append(seq, x)

\* Writes in flight: in mode "sat" at most one is followed.
InFlight(seq, x) == IF mode = "sat" /\ seq # << >> THEN seq ELSE Append(seq, x)

NoMessage == [set |-> FALSE, role |-> "", content |-> << >>, stop_reason |-> ""]
EmptyBuffer == [i \in {0, 1} |-> [present |-> FALSE, id |-> "", name |-> "", arguments |-> << >>]]

-----------------------------------------------------------------------------
(* External collaborators *)

\* db.server saveMessage / getConversationHistory: an operation may fail while
\* fewer than MaxDbFaults operations have failed.
DbOutcomes == IF dbFaults < MaxDbFaults THEN {TRUE, FALSE} ELSE {TRUE}
DbAfter(ok) == IF ok THEN dbFaults ELSE dbFaults + 1

\* saveMessage(conversationId, role, content): the stored row is the role with
\* the written content.
saveMessage(st, turn) == Log(st, Row(turn))

\* getConversationHistory(conversationId): the stored rows in insertion order.
getConversationHistory(st) == st

\* stream.sendMessage(event)
sendMessage(evs, e) == Log(evs, e)

\* stream.handleStreamingError(error): the terminal error event.
handleStreamingError(evs) == Log(evs, Event("error", << >>))

\* toolService.handleToolSuccess / handleToolError: the outcome turn of call `id`.
ResultTurn(id, name) == Turn("user", "tool_result", id, << "result", name >>)
ErrorTurn(id, errType) == Turn("user", "tool_result", id, << "error", errType >>)
IsErrorTurn(t) == t.type = "tool_result" /\ Len(t.body) = 2 /\ t.body[1] = "error"

-----------------------------------------------------------------------------
(* The provider stream *)

Chunk(content, calls, finish) ==
    [content |-> content, tool_calls |-> calls, finish_reason |-> finish]
CallDelta(i, n, name, args) ==
    [index |-> i, id |-> "call" \o ToString(n) \o "_" \o ToString(i),
     name |-> name, arguments |-> args]

ArgsX == JsonStringify(<< QueryX >>)
ArgsY == JsonStringify(<< QueryY >>)

\* The chunks the provider may deliver as chunk number n: a text delta; a
\* complete tool call with its 'tool_calls' finish; two complete calls in one
\* response (of the same tool with different inputs); the 'stop' finish; a
\* finish the gateway does not handle ('length').
ProviderChunks(n) ==
    { Chunk(ToString(n), << >>, ""),
      Chunk("", << CallDelta(0, n, SearchTool, ArgsX) >>, "tool_calls"),
      Chunk("", << CallDelta(0, n, SearchTool, ArgsX),
                   CallDelta(1, n, SearchTool, ArgsY) >>, "tool_calls"),
      Chunk("", << CallDelta(0, n, OrderTool, ArgsX),
                   CallDelta(1, n, OrderTool, ArgsY) >>, "tool_calls"),
      Chunk("", << >>, "stop"),
      Chunk("", << >>, "length") }

\* A provider that requests the catalog search with an input of two keys,
\* listed in one order or the other.
LimitOne == Member("limit", "1")
ArgsQueryLimit == JsonStringify(<< QueryX, LimitOne >>)
ArgsLimitQuery == JsonStringify(<< LimitOne, QueryX >>)

KeyOrderChunks(n) ==
    { Chunk(ToString(n), << >>, ""),
      Chunk("", << CallDelta(0, n, SearchTool, ArgsQueryLimit) >>, "tool_calls"),
      Chunk("", << CallDelta(0, n, SearchTool, ArgsLimitQuery) >>, "tool_calls"),
      Chunk("", << >>, "stop") }

\* A provider that requests one call in a response, or finishes.
CallChunks(n) ==
    { Chunk("", << CallDelta(0, n, SearchTool, ArgsX) >>, "tool_calls"),
      Chunk("", << CallDelta(0, n, OrderTool, ArgsX) >>, "tool_calls"),
      Chunk("", << >>, "stop") }

\* A later delta of a call: its index and a fragment of its arguments.
Fragment(i, args) == [index |-> i, id |-> "", name |-> "", arguments |-> args]

\* A provider that streams the arguments of up to two calls in fragments: the
\* start of call 0; its end; the starts of call 0 and call 1 in one chunk;
\* the ends of both, call 1 first; the 'tool_calls' finish alone and with the
\* end of call 0; a call without arguments; the 'stop' finish.
FragmentChunks ==
    { Chunk("", << CallDelta(0, 1, SearchTool, << Open, QueryX >>) >>, ""),
      Chunk("", << Fragment(0, << Close >>) >>, ""),
      Chunk("", << CallDelta(0, 1, SearchTool, << Open >>),
                   CallDelta(1, 1, OrderTool, << Open >>) >>, ""),
      Chunk("", << Fragment(1, << QueryY, Close >>),
                   Fragment(0, << QueryX, Close >>) >>, ""),
      Chunk("", << >>, "tool_calls"),
      Chunk("", << Fragment(0, << Close >>) >>, "tool_calls"),
      Chunk("", << CallDelta(1, 1, OrderTool, << >>) >>, ""),
      Chunk("", << >>, "stop") }

-----------------------------------------------------------------------------
(* Model Gateway: streamConversation *)

\* String.prototype.trim on a text made of pieces: the whitespace pieces at
\* both ends are dropped.
RECURSIVE TrimStart(_)
TrimStart(text) ==
    IF text # << >> /\ Head(text) = Whitespace THEN TrimStart(Tail(text)) ELSE text

RECURSIVE TrimEnd(_)
TrimEnd(text) ==
    IF text # << >> /\ text[Len(text)] = Whitespace
    THEN TrimEnd(SubSeq(text, 1, Len(text) - 1)) ELSE text

Trim(text) == TrimEnd(TrimStart(text))

\* filterSystemContent: the pieces that are internal reminders are removed,
\* and the rest is trimmed.
SystemReminder == "<long_conversation_reminder>"
Markup == "<b>"
filterSystemContent(text) ==
    Trim(SelectSeq(text, LAMBDA piece : piece # SystemReminder))

\* A message of the provider's format. content << >> is the empty string (or
\* null); tool_calls tells whether the message carries tool calls.
OpenAIMessage(role, content, id, calls) ==
    [role |-> role, content |-> content, tool_call_id |-> id, tool_calls |-> calls]

\* First filter of convertToOpenAIFormat: JSON.stringify(msg.content) names a
\* system reminder.
HasSystemContent(msg) == \E i \in 1..Len(msg.body) : msg.body[i] = SystemReminder

\* Array content: the text blocks without a reminder and without '<', each
\* filtered, joined with line breaks and trimmed. A tool_result block is not a
\* text block.
TextContent(msg) ==
    IF msg.type = "blocks"
    THEN Trim(SelectSeq(msg.body, LAMBDA piece : piece \notin {SystemReminder, Markup}))
    ELSE << >>

IsArrayContent(msg) == msg.type \in {"tool_result", "array", "blocks"}

\* The map of convertToOpenAIFormat.
ConvertOne(msg) ==
    IF msg.role = "assistant" /\ msg.type = "tool_calls"
    THEN OpenAIMessage(msg.role, msg.body, "", TRUE)
    ELSE IF msg.role = "tool"
    THEN OpenAIMessage(msg.role, msg.body, msg.id, FALSE)
    ELSE IF IsArrayContent(msg)
    THEN OpenAIMessage(msg.role, TextContent(msg), "", FALSE)
    ELSE OpenAIMessage(msg.role, filterSystemContent(msg.body), "", FALSE)

\* Mutant: the last filter keeps every message.
KeepsAnyContent(m) == TRUE

\* Last filter of convertToOpenAIFormat.
KeepsContent(m) ==
    \/ m.role = "tool"
    \/ m.role = "assistant" /\ m.tool_calls
    \/ Len(m.content) > 0

RECURSIVE convertToOpenAIFormat(_)
convertToOpenAIFormat(messages) ==
    IF messages = << >> THEN << >>
    ELSE LET msg == Head(messages)
             rest == convertToOpenAIFormat(Tail(messages))
         IN IF HasSystemContent(msg) THEN rest
            ELSE IF KeepsContent(ConvertOne(msg)) THEN << ConvertOne(msg) >> \o rest
            ELSE rest

\* onText callback of handleChatSession.
onText(evs, textDelta) == sendMessage(evs, Event("chunk", << textDelta >>))

\* Mutant: text deltas are accumulated but not forwarded while streaming.
ContentEventsBuffered(evs, c) == evs

\* if (delta?.content) { fullContent += delta.content; onText(delta.content) }
ContentText(text, c) == IF c.content # "" THEN Append(text, c.content) ELSE text
ContentEvents(evs, c) == IF c.content # "" THEN onText(evs, c.content) ELSE evs

\* Mutant: every fragment is added to the call of index 0.
AccumulateIntoFirst(buf, d) ==
    [buf EXCEPT ![0] = [present |-> TRUE,
                        id |-> IF buf[0].present THEN buf[0].id ELSE d.id,
                        name |-> IF d.name # "" THEN d.name ELSE buf[0].name,
                        arguments |-> buf[0].arguments \o d.arguments]]

\* Accumulation of one tool-call delta into toolCallsBuffer.
AccumulateOne(buf, d) ==
    LET cur == IF buf[d.index].present THEN buf[d.index]
               ELSE [present |-> TRUE, id |-> d.id, name |-> d.name, arguments |-> << >>]
        named == IF d.name # "" THEN [cur EXCEPT !.name = d.name] ELSE cur
    IN [buf EXCEPT ![d.index] = [named EXCEPT !.arguments = @ \o d.arguments]]

RECURSIVE Accumulate(_, _)
Accumulate(buf, deltas) ==
    IF deltas = << >> THEN buf
    ELSE Accumulate(AccumulateOne(buf, Head(deltas)), Tail(deltas))

\* Object.values(toolCallsBuffer) in index order, those with non-empty arguments.
BufferedCalls(buf) ==
    LET at(i) == IF buf[i].present /\ buf[i].arguments # << >> THEN << buf[i] >> ELSE << >>
    IN at(0) \o at(1)

\* The final message synthesized when the stream ends or throws.
SynthesizedMessage(text, fallback) ==
    [set |-> TRUE, role |-> "assistant",
     content |-> IF filterSystemContent(text) # << >> THEN filterSystemContent(text)
                 ELSE fallback,
     stop_reason |-> "end_turn"]

-----------------------------------------------------------------------------
(* Initial state: handleChatRequest has validated the message and opened the
   channel; handleChatSession starts. *)

\* Before discovery, and when the client could not be constructed.
NotAsked == [storefront |-> [failed |-> FALSE, tools |-> << >>],
             customer |-> [failed |-> FALSE, tools |-> << >>],
             asked |-> FALSE]

NoResponse == [status |-> 0, messages |-> << >>]

\* A submit request: body.message may be absent. Accepted(...) is the request
\* handleChatRequest has validated and answered with the event stream.
Body(has, message) == [has_message |-> has, message |-> message, status |-> 0]
Accepted(message) == [has_message |-> TRUE, message |-> message, status |-> 200]

\* Submit requests that carry no conversation_id: the clock Date.now() reads,
\* the position of each request, the identifier it was given, the history its
\* session built, and the Conversation Store's log of each identifier.
NewRequests == {1, 2}
ClockIds == { ToString(t) : t \in 0..(MaxClock + 1) }
ArrivalsAt(position) ==
    [now |-> 0,
     pc |-> [r \in NewRequests |-> position],
     conversationId |-> [r \in NewRequests |-> ""],
     history |-> [r \in NewRequests |-> << >>],
     logs |-> [id \in ClockIds |-> << >>]]
NoArrivals == ArrivalsAt("absent")

\* The state of a session after construction.
SessionState(m, o, rows, req, at, history) ==
    /\ mode = m
    /\ request = req
    /\ other = o
    /\ response = NoResponse
    /\ pc = at
    /\ mcpClient = FALSE
    /\ useFallbackTools = FALSE
    /\ sources = NotAsked
    /\ availableTools = << >>
    /\ events = << >>
    /\ store = rows
    /\ pendingSaves = << >>
    /\ dbFaults = 0
    /\ conversationHistory = history
    /\ productsToDisplay = << >>
    /\ toolIterationCount = 0
    /\ usedToolCalls = {}
    /\ toolCallCounts = [n \in ToolNames |-> 0]
    /\ totalToolCalls = 0
    /\ needsContinuation = FALSE
    /\ modelCalls = 0
    /\ chunksRead = 0
    /\ fullContent = << >>
    /\ finalMessage = NoMessage
    /\ toolCallsBuffer = EmptyBuffer
    /\ pendingCalls = << >>
    /\ onMessageCalls = 0
    /\ roundDeltas = << >>
    /\ roundStart = 0
    /\ convertedMessages = << >>
    /\ roundChunks = << >>
    /\ backendCalls = << >>
    /\ toolResult = NoResult
    /\ formattedResult = NoEnvelope

InitState(m, o, rows, req, at, history) ==
    /\ arrivals = NoArrivals
    /\ SessionState(m, o, rows, req, at, history)

InitFrom(m, o, rows, req, at) == InitState(m, o, rows, req, at, << >>)

InitWith(m, o, rows) == InitFrom(m, o, rows, Accepted(UserMessage), "discover")

\* No second request for the conversation.
NoOther == [pc |-> "absent", later |-> FALSE]

InitIn(m) == InitWith(m, NoOther, << >>)

Init == InitIn("exact")

guardVars == << toolIterationCount, usedToolCalls, toolCallCounts, totalToolCalls,
                needsContinuation >>
streamVars == << fullContent, finalMessage, toolCallsBuffer, pendingCalls,
                 onMessageCalls, roundDeltas, roundStart, convertedMessages, roundChunks >>
toolVars == << mcpClient, useFallbackTools, availableTools, sources >>

-----------------------------------------------------------------------------
(* Tool discovery *)

\* What a capability source answers: the connect throws, or it returns tools.
Answer(failed, tools) == [failed |-> failed, tools |-> tools]
StorefrontAnswers == {Answer(TRUE, << >>), Answer(FALSE, << >>), Answer(FALSE, << SearchTool >>)}
CustomerAnswers == {Answer(TRUE, << >>), Answer(FALSE, << >>), Answer(FALSE, << OrderTool >>)}
Failed(answer) == answer.failed
ToolsOf(answer) == IF Failed(answer) THEN << >> ELSE answer.tools
Asked(sf, cu) == [storefront |-> sf, customer |-> cu, asked |-> TRUE]

FallbackDescriptors == << SearchTool >>

\* Mutant: the built-in descriptor is installed whatever the sources returned.
DiscoveredToolsWithBuiltin(sf, cu) == ToolsOf(sf) \o ToolsOf(cu) \o FallbackDescriptors

\* mcpClient.tools after both connects, or the fallback descriptor when empty.
DiscoveredTools(sf, cu) ==
    IF ToolsOf(sf) \o ToolsOf(cu) = << >> THEN FallbackDescriptors
    ELSE ToolsOf(sf) \o ToolsOf(cu)

DiscoveredFallback(sf, cu) == Failed(sf) \/ ToolsOf(sf) \o ToolsOf(cu) = << >>

\* Mutant: the outer catch of discovery reports the failure on the channel.
DiscoverReportsFailure ==
    /\ pc = "discover"
    /\ \/ /\ mcpClient' = FALSE
          /\ useFallbackTools' = TRUE
          /\ availableTools' = FallbackDescriptors
          /\ sources' = NotAsked
          /\ events' = handleStreamingError(events)
       \/ \E sf \in StorefrontAnswers, cu \in CustomerAnswers :
          /\ mcpClient' = TRUE
          /\ sources' = Asked(sf, cu)
          /\ useFallbackTools' = DiscoveredFallback(sf, cu)
          /\ availableTools' = DiscoveredTools(sf, cu)
          /\ UNCHANGED events
    /\ pc' = "send_id"
    /\ UNCHANGED << mode, arrivals, other, response, request, store, pendingSaves, dbFaults, conversationHistory,
                    productsToDisplay, modelCalls, chunksRead, backendCalls, toolResult, formattedResult >>
    /\ UNCHANGED guardVars
    /\ UNCHANGED streamVars

\* Mutant: a source that fails to connect aborts discovery (the outer catch
\* installs the fallback descriptor alone).
DiscoverAbortsOnFailure ==
    /\ pc = "discover"
    /\ \/ /\ mcpClient' = FALSE
          /\ useFallbackTools' = TRUE
          /\ availableTools' = FallbackDescriptors
          /\ sources' = NotAsked
       \/ \E sf \in StorefrontAnswers, cu \in CustomerAnswers :
          /\ mcpClient' = TRUE
          /\ sources' = Asked(sf, cu)
          /\ useFallbackTools' = (DiscoveredFallback(sf, cu) \/ Failed(cu))
          /\ availableTools' = IF Failed(sf) \/ Failed(cu) THEN FallbackDescriptors
                                ELSE DiscoveredTools(sf, cu)
    /\ pc' = "send_id"
    /\ UNCHANGED << mode, arrivals, other, response, request, events, store, pendingSaves, dbFaults,
                    conversationHistory, productsToDisplay, modelCalls, chunksRead,
                    backendCalls, toolResult, formattedResult >>
    /\ UNCHANGED guardVars
    /\ UNCHANGED streamVars

Discover ==
    /\ pc = "discover"
    /\ \/ \* new MCPClient(...) throws: the outer catch installs the fallback
          /\ mcpClient' = FALSE
          /\ useFallbackTools' = TRUE
          /\ availableTools' = FallbackDescriptors
          /\ sources' = NotAsked
       \/ \E sf \in StorefrontAnswers, cu \in CustomerAnswers :
          /\ mcpClient' = TRUE
          /\ sources' = Asked(sf, cu)
          /\ useFallbackTools' = DiscoveredFallback(sf, cu)
          /\ availableTools' = DiscoveredTools(sf, cu)
    /\ pc' = "send_id"
    /\ UNCHANGED << mode, arrivals, other, response, request, events, store, pendingSaves, dbFaults, conversationHistory,
                    productsToDisplay, modelCalls, chunksRead, backendCalls, toolResult, formattedResult >>
    /\ UNCHANGED guardVars
    /\ UNCHANGED streamVars

-----------------------------------------------------------------------------
(* Session start *)

IdEvent == Event("id", << ConversationId >>)

\* stream.sendMessage({ type: 'id', ... })
SendId ==
    /\ pc = "send_id"
    /\ events' = sendMessage(events, IdEvent)
    /\ pc' = "save_user"
    /\ UNCHANGED << mode, arrivals, other, response, request, store, pendingSaves, dbFaults, conversationHistory,
                    productsToDisplay, modelCalls, chunksRead, backendCalls, toolResult, formattedResult >>
    /\ UNCHANGED guardVars
    /\ UNCHANGED streamVars
    /\ UNCHANGED toolVars

UserTurn == Turn("user", "text", "", << request.message >>)

\* await saveMessage(conversationId, 'user', userMessage)
SaveUser ==
    /\ pc = "save_user"
    /\ \E ok \in DbOutcomes :
         /\ dbFaults' = DbAfter(ok)
         /\ store' = IF ok THEN saveMessage(store, UserTurn) ELSE store
         /\ pc' = IF ok THEN "load" ELSE "catch"
    /\ UNCHANGED << mode, arrivals, other, response, request, events, pendingSaves, conversationHistory,
                    productsToDisplay, modelCalls, chunksRead, backendCalls, toolResult, formattedResult >>
    /\ UNCHANGED guardVars
    /\ UNCHANGED streamVars
    /\ UNCHANGED toolVars

\* Removal of consecutive duplicates: a row is kept unless its role and content
\* equal those of the row before it.
RECURSIVE Deduplicate(_)
Deduplicate(rows) ==
    IF Len(rows) <= 1 THEN rows
    ELSE LET front == Deduplicate(SubSeq(rows, 1, Len(rows) - 1))
             current == rows[Len(rows)]
             previous == rows[Len(rows) - 1]
         IN IF current = previous THEN front ELSE Append(front, current)

\* conversationHistory = deduplicatedMessages.map(... JSON.parse ...)
ParseRows(rows) == [i \in 1..Len(rows) |-> ParseContent(rows[i].role, rows[i].content)]

\* await getConversationHistory(...), de-duplication and content parsing
LoadHistory ==
    /\ pc = "load"
    /\ \E ok \in DbOutcomes :
         /\ dbFaults' = DbAfter(ok)
         /\ conversationHistory' =
              IF ok THEN ParseRows(Deduplicate(getConversationHistory(store)))
              ELSE conversationHistory
         /\ pc' = IF ok THEN "loop" ELSE "catch"
    /\ UNCHANGED << mode, arrivals, other, response, request, events, store, pendingSaves,
                    productsToDisplay, modelCalls, chunksRead, backendCalls, toolResult, formattedResult >>
    /\ UNCHANGED guardVars
    /\ UNCHANGED streamVars
    /\ UNCHANGED toolVars

\* Mutant: the catch rethrows without reporting the error on the channel.
SessionCatchSilent ==
    /\ pc = "catch"
    /\ pc' = "failed"
    /\ UNCHANGED << mode, arrivals, other, response, request, events, store, pendingSaves, dbFaults, conversationHistory,
                    productsToDisplay, modelCalls, chunksRead, backendCalls, toolResult, formattedResult >>
    /\ UNCHANGED guardVars
    /\ UNCHANGED streamVars
    /\ UNCHANGED toolVars

\* catch (error) { stream.handleStreamingError(error); throw error; }
SessionCatch ==
    /\ pc = "catch"
    /\ events' = handleStreamingError(events)
    /\ pc' = "failed"
    /\ UNCHANGED << mode, arrivals, other, response, request, store, pendingSaves, dbFaults, conversationHistory,
                    productsToDisplay, modelCalls, chunksRead, backendCalls, toolResult, formattedResult >>
    /\ UNCHANGED guardVars
    /\ UNCHANGED streamVars
    /\ UNCHANGED toolVars

-----------------------------------------------------------------------------
(* The do/while loop of handleChatSession *)

ApologyTurn == Turn("assistant", "text", "", << ApologyText >>)

\* Events of the loop-limit branch: the apology chunk, message_complete, and
\* (after the break) end_turn.
ApologyEvents(evs) ==
    sendMessage(sendMessage(sendMessage(evs, Event("chunk", << ApologyText >>)),
                            Event("message_complete", << >>)),
                Event("end_turn", << >>))

\* modelCalls counts the invocations; in mode "sat" it stops at MaxChunks + 1,
\* which a session that reads MaxChunks chunks cannot exceed in mode "exact"
\* (a further round needs a tool call, and a tool call needs a chunk).
CountedCalls == IF mode = "sat" /\ modelCalls > MaxChunks THEN modelCalls
                ELSE modelCalls + 1

\* Top of the loop body: the safety check, else streamConversation is called.
LoopTopBody(count, max) ==
    /\ pc = "loop"
    /\ needsContinuation' = FALSE
    /\ IF count >= max
       THEN \E ok \in DbOutcomes :
              /\ conversationHistory' = Log(conversationHistory, ApologyTurn)
              /\ dbFaults' = DbAfter(ok)
              /\ store' = IF ok THEN saveMessage(store, ApologyTurn) ELSE store
              /\ events' = IF ok THEN ApologyEvents(events) ELSE events
              /\ pc' = IF ok THEN "done" ELSE "catch"
              /\ UNCHANGED << modelCalls, chunksRead >>
              /\ UNCHANGED streamVars
       ELSE /\ modelCalls' = CountedCalls
            /\ chunksRead' = IF mode = "sat" THEN 0 ELSE chunksRead
            /\ fullContent' = << >>
            /\ finalMessage' = NoMessage
            /\ toolCallsBuffer' = EmptyBuffer
            /\ pendingCalls' = << >>
            /\ onMessageCalls' = 0
            /\ roundDeltas' = << >>
            /\ roundStart' = Len(events)
            /\ convertedMessages' = convertToOpenAIFormat(conversationHistory)
            /\ roundChunks' = << >>
            /\ pc' = "stream"
            /\ UNCHANGED << events, store, dbFaults, conversationHistory >>
    /\ UNCHANGED << mode, arrivals, other, response, request, pendingSaves, productsToDisplay, backendCalls, toolResult, formattedResult,
                    toolIterationCount, usedToolCalls, toolCallCounts, totalToolCalls >>
    /\ UNCHANGED toolVars

LoopTop == LoopTopBody(toolIterationCount, MAX_TOOL_ITERATIONS)
LoopTopCounter == LoopTopBody(totalToolCalls, MAX_TOTAL_TOOL_CALLS)

\* while (needsContinuation && count < max); then end_turn.
Continues(count, max) == needsContinuation /\ count < max

LoopConditionBody(count, max) ==
    /\ pc = "while"
    /\ IF Continues(count, max)
       THEN /\ pc' = "loop"
            /\ UNCHANGED events
       ELSE /\ pc' = "done"
            /\ events' = sendMessage(events, Event("end_turn", << >>))
    \* the locals of the streamConversation call that returned are gone
    /\ fullContent' = << >>
    /\ finalMessage' = NoMessage
    /\ toolCallsBuffer' = EmptyBuffer
    /\ pendingCalls' = << >>
    /\ onMessageCalls' = 0
    /\ roundDeltas' = << >>
    /\ roundStart' = Len(events')
    /\ convertedMessages' = << >>
    /\ roundChunks' = << >>
    /\ UNCHANGED << mode, arrivals, other, response, request, store, pendingSaves, dbFaults, conversationHistory,
                    productsToDisplay, modelCalls, chunksRead, backendCalls, toolResult, formattedResult >>
    /\ UNCHANGED guardVars
    /\ UNCHANGED toolVars

LoopCondition == LoopConditionBody(toolIterationCount, MAX_TOOL_ITERATIONS)
LoopConditionCounter == LoopConditionBody(totalToolCalls, MAX_TOTAL_TOOL_CALLS)

-----------------------------------------------------------------------------
(* streamConversation: one provider chunk *)

\* Mutant: onMessage sends nothing.
onMessageEventsNone(evs, products) == evs

\* Mutant: the products event is sent after message_complete.
onMessageEventsProductsLast(evs, products) ==
    LET complete == sendMessage(evs, Event("message_complete", << >>))
    IN IF products # << >>
       THEN sendMessage(complete, [type |-> "products", data |-> products,
                                   input |-> << >>])
       ELSE complete

\* onMessage callback of handleChatSession: events sent.
onMessageEvents(evs, products) ==
    LET withProducts == IF products # << >>
                        THEN sendMessage(evs, [type |-> "products", data |-> products,
                                               input |-> << >>])
                        ELSE evs
    IN sendMessage(withProducts, Event("message_complete", << >>))

AssistantTurn(text) == Turn("assistant", "text", "", text)

\* saveMessage(conversationId, message.role, JSON.stringify(message.content))
AssistantWrite(text) == Turn("assistant", "stringified", "", text)

ReadChunkOf(chunks, max) ==
    /\ pc = "stream"
    /\ chunksRead < max
    /\ \E c \in chunks :
         LET text == ContentText(fullContent, c)
             evs == ContentEvents(events, c)
             buf == Accumulate(toolCallsBuffer, c.tool_calls)
         IN
         /\ chunksRead' = chunksRead + 1
         /\ roundChunks' = Log(roundChunks, c)
         /\ roundDeltas' = IF c.content # "" THEN Append(roundDeltas, c.content)
                           ELSE roundDeltas
         /\ fullContent' = text
         /\ toolCallsBuffer' = buf
         /\ IF c.finish_reason = "tool_calls"
            THEN /\ pendingCalls' = BufferedCalls(buf)
                 /\ pc' = IF BufferedCalls(buf) = << >> THEN "stream" ELSE "tools"
                 /\ events' = evs
                 /\ UNCHANGED << finalMessage, onMessageCalls, conversationHistory,
                                 pendingSaves, productsToDisplay >>
            ELSE IF c.finish_reason = "stop"
            THEN /\ finalMessage' = [set |-> TRUE, role |-> "assistant",
                                     content |-> text, stop_reason |-> "end_turn"]
                 /\ onMessageCalls' = onMessageCalls + 1
                 /\ conversationHistory' = Log(conversationHistory, AssistantTurn(text))
                 /\ pendingSaves' = InFlight(pendingSaves, AssistantWrite(text))
                 /\ events' = onMessageEvents(evs, productsToDisplay)
                 /\ productsToDisplay' = << >>
                 /\ pc' = "while"
                 /\ UNCHANGED pendingCalls
            ELSE /\ events' = evs
                 /\ pc' = "stream"
                 /\ UNCHANGED << finalMessage, onMessageCalls, conversationHistory,
                                 pendingSaves, productsToDisplay, pendingCalls >>
    /\ UNCHANGED << mode, arrivals, other, response, request, store, dbFaults, modelCalls, backendCalls, toolResult, formattedResult, roundStart,
                    convertedMessages >>
    /\ UNCHANGED guardVars
    /\ UNCHANGED toolVars

ReadChunk == ReadChunkOf(ProviderChunks(chunksRead + 1), MaxChunks)

\* The provider requests one call in a response.
ReadCall == ReadChunkOf(CallChunks(chunksRead + 1), MaxChunks)

\* The provider lists the keys of an input in either order.
ReadKeyOrder == ReadChunkOf(KeyOrderChunks(chunksRead + 1), MaxChunks)

\* The provider delivers the arguments of a call in fragments.
ReadFragment == ReadChunkOf(FragmentChunks, MaxFragments)

\* The provider stream is exhausted (done) without a 'stop' finish.
StreamEnd ==
    /\ pc = "stream"
    /\ finalMessage' = SynthesizedMessage(fullContent, << >>)
    /\ pc' = "while"
    /\ UNCHANGED << mode, arrivals, other, response, request, events, store, pendingSaves, dbFaults, conversationHistory,
                    productsToDisplay, modelCalls, chunksRead, backendCalls, toolResult, formattedResult,
                    fullContent, toolCallsBuffer, pendingCalls, onMessageCalls,
                    roundDeltas, roundStart,
                    convertedMessages, roundChunks >>
    /\ UNCHANGED guardVars
    /\ UNCHANGED toolVars

\* openai.chat.completions.create or iterator.next throws: the catch of
\* streamConversation synthesizes the final message.
StreamThrow ==
    /\ pc = "stream"
    /\ finalMessage' = SynthesizedMessage(fullContent, << TroubleText >>)
    /\ pc' = "while"
    /\ UNCHANGED << mode, arrivals, other, response, request, events, store, pendingSaves, dbFaults, conversationHistory,
                    productsToDisplay, modelCalls, chunksRead, backendCalls, toolResult, formattedResult,
                    fullContent, toolCallsBuffer, pendingCalls, onMessageCalls,
                    roundDeltas, roundStart,
                    convertedMessages, roundChunks >>
    /\ UNCHANGED guardVars
    /\ UNCHANGED toolVars

\* A store write that was started without await completes (or fails, logged).
CommitSave ==
    /\ pendingSaves # << >>
    /\ \E i \in 1..Len(pendingSaves), ok \in DbOutcomes :
         /\ dbFaults' = DbAfter(ok)
         /\ store' = IF ok THEN saveMessage(store, pendingSaves[i]) ELSE store
         /\ pendingSaves' = SubSeq(pendingSaves, 1, i - 1)
                            \o SubSeq(pendingSaves, i + 1, Len(pendingSaves))
    /\ UNCHANGED << mode, arrivals, other, response, request, pc, events, conversationHistory, productsToDisplay,
                    modelCalls, chunksRead, backendCalls, toolResult, formattedResult >>
    /\ UNCHANGED guardVars
    /\ UNCHANGED streamVars
    /\ UNCHANGED toolVars

-----------------------------------------------------------------------------
(* Tool Executor: onToolUse *)

\* searchProductsFallback(request, query): authentication and the GraphQL
\* request may throw, which the function catches and returns as an
\* execution_error result ("caught"); a reply with errors is returned as an
\* api_error result ("error"); else the content envelope.
AuthAnswers == {"admin", "throws"}
GraphqlReplies == {"products", "errors", "throws"}
searchProductsFallback(auth, reply) ==
    IF auth = "throws" \/ reply = "throws" THEN "caught"
    ELSE IF reply = "errors" THEN "error"
    ELSE "content"

\* Mutant: the MCP client is used whenever there is one.
BackendPrefersMcp(name) ==
    IF mcpClient THEN "mcp"
    ELSE IF useFallbackTools /\ name = SearchTool THEN "fallback"
    ELSE "none"

\* The backend a call is dispatched to.
Backend(name) ==
    IF useFallbackTools /\ name = SearchTool THEN "fallback"
    ELSE IF mcpClient THEN "mcp"
    ELSE "none"

\* What the dispatch resolves to: a content result, a result carrying .error,
\* or an exception.
BackendOutcomes(backend) ==
    IF backend = "fallback"
    THEN { searchProductsFallback(a, r) : a \in AuthAnswers, r \in GraphqlReplies }
    ELSE IF backend = "mcp" THEN {"content", "error", "throw"}
    ELSE {"throw"}

\* Mutant: the caught exception is passed on without the execution_error type.
ErrorTypeUntyped(outcome) == "api_error"

ErrorType(outcome) ==
    IF outcome \in {"throw", "caught"} THEN "execution_error" ELSE "api_error"

\* toolService.handleToolSuccess / handleToolError: the outcome turn is
\* appended to the history.
handleToolSuccess(history, id, name) == Log(history, ResultTurn(id, name))
handleToolError(history, id, errType) == Log(history, ErrorTurn(id, errType))

OutcomeTurn(call, outcome) ==
    IF outcome = "content" THEN ResultTurn(call.id, call.name)
    ELSE ErrorTurn(call.id, ErrorType(outcome))

\* needsContinuation after the outcome of an executed call.
ContinuationAfter(outcome) == IF outcome = "content" THEN TRUE ELSE needsContinuation

\* The execution part of onToolUse: tool_use event, dispatch, outcome turn.
Execute(call, input, results) ==
    \E outcome \in BackendOutcomes(Backend(call.name)), ok \in DbOutcomes,
       result \in ContentResults(Backend(call.name), results) :
      /\ events' = sendMessage(events, ToolUseEvent(call.name, input))
      /\ backendCalls' = IF Backend(call.name) # "none"
                         THEN Log(backendCalls, [backend |-> Backend(call.name),
                                                 name |-> call.name, input |-> input])
                         ELSE backendCalls
      /\ conversationHistory' =
            IF outcome = "content"
            THEN handleToolSuccess(conversationHistory, call.id, call.name)
            ELSE handleToolError(conversationHistory, call.id, ErrorType(outcome))
      /\ dbFaults' = DbAfter(ok)
      /\ store' = IF ok THEN saveMessage(store, OutcomeTurn(call, outcome)) ELSE store
      /\ productsToDisplay' = IF outcome = "content"
                              THEN Log(productsToDisplay, call.id)
                              ELSE productsToDisplay
      /\ needsContinuation' = ContinuationAfter(outcome)
      /\ toolResult' = IF outcome = "content" THEN result ELSE toolResult
      /\ formattedResult' = IF outcome = "content" THEN FormatResult(call.name, result)
                            ELSE formattedResult

\* Mutant: a blocked call sets needsContinuation without an outcome turn.
BlockedUnrecorded(turn) ==
    /\ needsContinuation' = TRUE
    /\ UNCHANGED << conversationHistory, dbFaults, store, events, backendCalls, toolResult, formattedResult,
                    productsToDisplay >>

\* A synthesized tool-result turn (duplicate-blocked or cap-blocked): pushed to
\* the history, then saved with await; needsContinuation is set after the save.
Blocked(turn) ==
    \E ok \in DbOutcomes :
      /\ conversationHistory' = Log(conversationHistory, turn)
      /\ dbFaults' = DbAfter(ok)
      /\ store' = IF ok THEN saveMessage(store, turn) ELSE store
      /\ needsContinuation' = IF ok THEN TRUE ELSE needsContinuation
      /\ UNCHANGED << events, backendCalls, toolResult, formattedResult, productsToDisplay >>

\* After a handed-over call: the next buffered call, or back to the stream.
NextCall ==
    /\ pendingCalls' = Tail(pendingCalls)
    /\ pc' = IF Tail(pendingCalls) = << >> THEN "stream" ELSE "tools"

\* Arguments that do not parse: the exception is caught and logged.
SkipUnparsed ==
    /\ NextCall
    /\ UNCHANGED << events, backendCalls, toolResult, formattedResult, productsToDisplay, conversationHistory,
                    dbFaults, store >>
    /\ UNCHANGED guardVars

\* toolCallKey = `${toolUse.name}:${JSON.stringify(toolUse.input)}`
ToolCallKey(name, input) == [name |-> name, json |-> JsonStringify(input)]

DuplicateTurn(id) == Turn("user", "tool_result", id, << DuplicateText >>)

\* Mutant: the lookup never finds the key (a Set lookup by object identity).
IsDuplicateByIdentity(key) == FALSE

IsDuplicate(key) == key \in usedToolCalls

\* Mutant: the call is tracked only when its execution did not end in an error.
TrackCallOnSuccess(key) ==
    LET failed == IsErrorTurn(conversationHistory'[Len(conversationHistory')]) IN
    /\ usedToolCalls' = IF failed THEN usedToolCalls ELSE usedToolCalls \cup {key}
    /\ toolIterationCount' = IF failed THEN toolIterationCount ELSE toolIterationCount + 1

\* usedToolCalls.add(toolCallKey); toolIterationCount++ (before the dispatch,
\* whose outcome they do not depend on)
TrackCall(key) ==
    /\ usedToolCalls' = usedToolCalls \cup {key}
    /\ toolIterationCount' = toolIterationCount + 1

\* chat.jsx onToolUse, for the first call the for-loop still has to hand over.
OnToolUseOf(results) ==
    /\ pc = "tools"
    /\ LET call == Head(pendingCalls) IN
       IF ~WellFormed(call.arguments) THEN SkipUnparsed
       ELSE LET input == JsonParse(call.arguments)
                key == ToolCallKey(call.name, input)
            IN /\ NextCall
               /\ IF IsDuplicate(key)
                  THEN /\ Blocked(DuplicateTurn(call.id))
                       /\ UNCHANGED << usedToolCalls, toolIterationCount >>
                  ELSE /\ Execute(call, input, results)
                       /\ TrackCall(key)
               /\ UNCHANGED << toolCallCounts, totalToolCalls >>
    /\ UNCHANGED << mode, arrivals, other, response, request, pendingSaves, modelCalls, chunksRead, fullContent,
                    finalMessage, toolCallsBuffer, onMessageCalls, roundDeltas,
                    roundStart,
                    convertedMessages, roundChunks >>
    /\ UNCHANGED toolVars

OnToolUse == OnToolUseOf(FoundResults)

\* The backends return results of every shape, with and without products.
OnToolUseAnyResult == OnToolUseOf(AllResults)

CapTurn(id) == Turn("user", "tool_result", id, << MaxAttemptsText >>)

\* Mutant: the per-tool check is off by one.
PerToolCapExceeded(name) == toolCallCounts[name] > MAX_TOOL_CALLS_PER_TOOL

PerToolCapReached(name) == toolCallCounts[name] >= MAX_TOOL_CALLS_PER_TOOL

\* part_003 onToolUse
OnToolUseCounter ==
    /\ pc = "tools"
    /\ LET call == Head(pendingCalls) IN
       IF ~WellFormed(call.arguments) THEN SkipUnparsed
       ELSE LET input == JsonParse(call.arguments)
            IN /\ NextCall
               /\ IF PerToolCapReached(call.name)
                  THEN /\ Blocked(CapTurn(call.id))
                       /\ UNCHANGED << toolCallCounts, totalToolCalls >>
                  ELSE /\ toolCallCounts' = [toolCallCounts EXCEPT ![call.name] = @ + 1]
                       /\ totalToolCalls' = totalToolCalls + 1
                       /\ Execute(call, input, FoundResults)
               /\ UNCHANGED << usedToolCalls, toolIterationCount >>
    /\ UNCHANGED << mode, arrivals, other, response, request, pendingSaves, modelCalls, chunksRead, fullContent,
                    finalMessage, toolCallsBuffer, onMessageCalls, roundDeltas,
                    roundStart,
                    convertedMessages, roundChunks >>
    /\ UNCHANGED toolVars

-----------------------------------------------------------------------------
(* A second session of the same conversation: handleChatRequest starts one
   handleChatSession per request, and each await of a session lets the other
   run. The second session is followed through its store operations. *)

OtherMessage == "again"
OtherUserTurn == Turn("user", "text", "", << OtherMessage >>)
OtherAssistantTurn == AssistantWrite(<< "reply" >>)

\* The second request has arrived; its session is about to save its user turn.
OtherArrived == [pc |-> "save_user", later |-> FALSE]

otherUnchanged ==
    << mode, arrivals, response, request, pc, events, pendingSaves, dbFaults, conversationHistory,
       productsToDisplay, modelCalls, chunksRead, backendCalls, toolResult, formattedResult, guardVars,
       streamVars, toolVars >>

\* await saveMessage(conversationId, 'user', userMessage) of the second session;
\* `later` records that the first session had ended before.
OtherSaveUser ==
    /\ other.pc = "save_user"
    /\ store' = saveMessage(store, OtherUserTurn)
    /\ other' = [other EXCEPT !.pc = "load", !.later = (pc = "done")]
    /\ UNCHANGED otherUnchanged

\* await getConversationHistory(conversationId) of the second session: a read
\* of the store (what it builds from the rows is not followed).
OtherLoadHistory ==
    /\ other.pc = "load"
    /\ other' = [other EXCEPT !.pc = "reply"]
    /\ UNCHANGED store
    /\ UNCHANGED otherUnchanged

\* onMessage of the second session: its assistant turn is pushed and written.
OtherReply ==
    /\ other.pc = "reply"
    /\ store' = saveMessage(store, OtherAssistantTurn)
    /\ other' = [other EXCEPT !.pc = "done"]
    /\ UNCHANGED otherUnchanged

\* A second handleChatSession invocation with its own guard state: the
\* declarations of chat.jsx 262-264 are locals of the invocation. `requested`
\* lists the requests given to its onToolUse, `executed` those it ran.
OtherSession ==
    [pc |-> "start", later |-> FALSE, usedToolCalls |-> {}, toolIterationCount |-> 0,
     requested |-> << >>, executed |-> << >>]

\* The second invocation starts (concurrently, or after the first has ended).
OtherStart ==
    /\ other.pc = "start"
    /\ other' = [other EXCEPT !.pc = "tools", !.later = (pc = "done")]
    /\ UNCHANGED store
    /\ UNCHANGED otherUnchanged

\* Mutant: the fingerprints are kept in one set shared by all invocations.
OtherSeenShared(key) == key \in other.usedToolCalls \cup usedToolCalls

\* usedToolCalls.has(toolCallKey) in the second invocation.
OtherSeen(key) == key \in other.usedToolCalls

\* onToolUse of the second invocation, up to the dispatch: the duplicate
\* check, then the fingerprint is recorded and the counter incremented.
OtherOnToolUse ==
    /\ other.pc = "tools"
    /\ Len(other.requested) < MaxOtherCalls
    /\ \E input \in { << QueryX >>, << QueryY >> } :
         LET key == ToolCallKey(SearchTool, input) IN
         other' = IF OtherSeen(key)
                  THEN [other EXCEPT !.requested = Append(@, key)]
                  ELSE [other EXCEPT !.requested = Append(@, key),
                                     !.usedToolCalls = @ \cup {key},
                                     !.toolIterationCount = @ + 1,
                                     !.executed = Append(@, key)]
    /\ UNCHANGED store
    /\ UNCHANGED otherUnchanged

-----------------------------------------------------------------------------
(* Submit: handleChatRequest validates body.message and starts the session *)

\* Mutant: only an absent message is rejected.
IsAbsent(body) == ~body.has_message

\* !userMessage
IsFalsy(body) == ~body.has_message \/ body.message = ""

handleChatRequest ==
    /\ pc = "request"
    /\ IF IsFalsy(request)
       THEN /\ request' = [request EXCEPT !.status = 400]
            /\ pc' = "rejected"
       ELSE /\ request' = [request EXCEPT !.status = 200]
            /\ pc' = "discover"
    /\ UNCHANGED << mode, arrivals, other, response, events, store, pendingSaves, dbFaults,
                    conversationHistory, productsToDisplay, modelCalls, chunksRead,
                    backendCalls, toolResult, formattedResult >>
    /\ UNCHANGED guardVars
    /\ UNCHANGED streamVars
    /\ UNCHANGED toolVars

-----------------------------------------------------------------------------
(* History fetch: the loader's handleHistoryRequest *)

handleHistoryRequest ==
    /\ response = NoResponse
    /\ \E ok \in DbOutcomes :
         /\ dbFaults' = DbAfter(ok)
         /\ response' = IF ok THEN [status |-> 200,
                                    messages |-> getConversationHistory(store)]
                        ELSE [status |-> 500, messages |-> << >>]
    /\ UNCHANGED << mode, arrivals, other, request, pc, events, store, pendingSaves,
                    conversationHistory, productsToDisplay, modelCalls, chunksRead,
                    backendCalls, toolResult, formattedResult >>
    /\ UNCHANGED guardVars
    /\ UNCHANGED streamVars
    /\ UNCHANGED toolVars

\* Rows earlier sessions of the conversation may have written: a user text, the
\* same text typed with quotes, an assistant text, a duplicate-blocked
\* tool_result turn, and the same JSON text with whitespace.
StoredRows ==
    { Row(Turn("user", "text", "", << UserMessage >>)),
      [role |-> "user", content |-> << Quote, UserMessage, Quote >>],
      Row(Turn("assistant", "text", "", << UserMessage >>)),
      Row(DuplicateTurn("call1_0")),
      [role |-> "user",
       content |-> << "[", Whitespace >> \o Tail(Stringify(DuplicateTurn("call1_0")))] }

RowSeqs(n) == UNION { [1..k -> StoredRows] : k \in 0..n }

-----------------------------------------------------------------------------
(* Specifications *)

Next ==
    \/ Discover
    \/ SendId
    \/ SaveUser
    \/ LoadHistory
    \/ LoopTop
    \/ ReadChunk
    \/ OnToolUse
    \/ StreamEnd
    \/ StreamThrow
    \/ LoopCondition
    \/ CommitSave
    \/ SessionCatch

NextCounter ==
    \/ Discover
    \/ SendId
    \/ SaveUser
    \/ LoadHistory
    \/ LoopTopCounter
    \/ ReadChunk
    \/ OnToolUseCounter
    \/ StreamEnd
    \/ StreamThrow
    \/ LoopConditionCounter
    \/ CommitSave
    \/ SessionCatch

Spec == Init /\ [][Next]_vars

SpecCounter == Init /\ [][NextCounter]_vars

LiveInit == InitIn("sat")

LiveSpec == LiveInit /\ [][Next]_vars /\ WF_vars(Next)

\* Two sessions of one conversation.
InitConcurrent == InitWith("exact", OtherArrived, << >>)

NextConcurrent ==
    \/ Next
    \/ OtherSaveUser
    \/ OtherLoadHistory
    \/ OtherReply

SpecConcurrent == InitConcurrent /\ [][NextConcurrent]_vars

\* The start of a session over a store that earlier sessions have filled, up
\* to the built history, and the history fetch.
InitHistory == \E rows \in RowSeqs(MaxRows) : InitWith("exact", NoOther, rows)

NextHistory ==
    \/ Discover
    \/ SendId
    \/ SaveUser
    \/ LoadHistory
    \/ SessionCatch
    \/ handleHistoryRequest

SpecHistory == InitHistory /\ [][NextHistory]_vars

\* A submit request from its arrival to the built history of its session.
RequestBodies == {Body(FALSE, ""), Body(TRUE, ""), Body(TRUE, UserMessage),
                  Body(TRUE, OtherMessage)}

InitRequest ==
    \E body \in RequestBodies : InitFrom("exact", NoOther, << >>, body, "request")

NextRequest ==
    \/ handleChatRequest
    \/ NextHistory

SpecRequest == InitRequest /\ [][NextRequest]_vars

\* A session whose provider streams tool-call arguments in fragments.
NextFragments ==
    \/ Discover
    \/ SendId
    \/ SaveUser
    \/ LoadHistory
    \/ LoopTop
    \/ ReadFragment
    \/ OnToolUse
    \/ StreamEnd
    \/ StreamThrow
    \/ LoopCondition
    \/ CommitSave
    \/ SessionCatch

SpecFragments == Init /\ [][NextFragments]_vars

\* A session whose provider lists the keys of a tool input in either order.
NextKeyOrder ==
    \/ Discover
    \/ SendId
    \/ SaveUser
    \/ LoadHistory
    \/ LoopTop
    \/ ReadKeyOrder
    \/ OnToolUse
    \/ StreamEnd
    \/ StreamThrow
    \/ LoopCondition
    \/ CommitSave
    \/ SessionCatch

SpecKeyOrder == Init /\ [][NextKeyOrder]_vars

\* Two invocations of handleChatSession, the second at any time relative to
\* the first; the provider of the first requests one call in a response.
InitSessions == InitWith("exact", OtherSession, << >>)

NextSessions ==
    \/ Discover
    \/ SendId
    \/ SaveUser
    \/ LoadHistory
    \/ LoopTop
    \/ ReadCall
    \/ OnToolUse
    \/ StreamEnd
    \/ StreamThrow
    \/ LoopCondition
    \/ CommitSave
    \/ SessionCatch
    \/ OtherStart
    \/ OtherOnToolUse

SpecSessions == InitSessions /\ [][NextSessions]_vars

\* A session whose backends return results of every shape.
NextResults ==
    \/ Discover
    \/ SendId
    \/ SaveUser
    \/ LoadHistory
    \/ LoopTop
    \/ ReadCall
    \/ OnToolUseAnyResult
    \/ StreamEnd
    \/ StreamThrow
    \/ LoopCondition
    \/ CommitSave
    \/ SessionCatch

SpecResults == Init /\ [][NextResults]_vars

\* streamConversation called with a history: convertToOpenAIFormat is applied
\* to it. The turns are a text, a blank text, an empty text, a text naming a
\* system reminder, a turn made of a tool_result block, a turn made of text
\* blocks, a provider-format tool message with empty content and an
\* assistant message that carries tool calls and no content.
TurnSamples ==
    { Turn("user", "text", "", << UserMessage >>),
      Turn("user", "text", "", << Whitespace >>),
      Turn("assistant", "text", "", << >>),
      Turn("assistant", "text", "", << UserMessage, SystemReminder >>),
      DuplicateTurn("call1_0"),
      Turn("user", "blocks", "", << Markup, Whitespace >>),
      Turn("user", "blocks", "", << UserMessage, Whitespace >>),
      Turn("tool", "text", "call1_0", << >>),
      Turn("assistant", "tool_calls", "", << >>) }

Histories(n) == UNION { [1..k -> TurnSamples] : k \in 0..n }

InitNormalize ==
    \E history \in Histories(MaxTurns) :
        InitState("exact", NoOther, << >>, Accepted(UserMessage), "loop", history)

NextNormalize == LoopTop

SpecNormalize == InitNormalize /\ [][NextNormalize]_vars

\* A submit request whose text is a plain word, only whitespace, a text with
\* markup, or a text naming a system reminder, over a store that holds at most
\* one earlier row, from its arrival to the first call of the model.
MessageTexts == {UserMessage, Whitespace, Markup, SystemReminder}

InitMessage ==
    \E text \in MessageTexts, rows \in RowSeqs(1) :
        InitFrom("exact", NoOther, rows, Body(TRUE, text), "request")

NextMessage ==
    \/ handleChatRequest
    \/ Discover
    \/ SendId
    \/ SaveUser
    \/ LoadHistory
    \/ LoopTop
    \/ SessionCatch

SpecMessage == InitMessage /\ [][NextMessage]_vars

\* Two submit requests without conversation_id, each from the assignment of
\* its identifier to the history its session builds.

arrivalsUnchanged ==
    << mode, other, response, request, pc, events, store, pendingSaves, dbFaults,
       conversationHistory, productsToDisplay, modelCalls, chunksRead, backendCalls,
       toolResult, formattedResult, guardVars, streamVars, toolVars >>

\* The millisecond clock advances while a request is still to be handled.
Tick ==
    /\ arrivals.now < MaxClock
    /\ \E r \in NewRequests : arrivals.pc[r] = "arrived"
    /\ arrivals' = [arrivals EXCEPT !.now = @ + 1]
    /\ UNCHANGED arrivalsUnchanged

\* const conversationId = body.conversation_id || Date.now().toString()
AssignConversationId(r) ==
    /\ arrivals.pc[r] = "arrived"
    /\ arrivals' = [arrivals EXCEPT !.conversationId[r] = ToString(arrivals.now),
                                    !.pc[r] = "save_user"]
    /\ UNCHANGED arrivalsUnchanged

ArrivalMessage(r) == IF r = 1 THEN UserMessage ELSE OtherMessage
ArrivalTurn(r) == Turn("user", "text", "", << ArrivalMessage(r) >>)

\* await saveMessage(conversationId, 'user', userMessage) of request r
ArrivalSaveUser(r) ==
    /\ arrivals.pc[r] = "save_user"
    /\ arrivals' = [arrivals EXCEPT !.logs[arrivals.conversationId[r]] =
                                        Append(@, Row(ArrivalTurn(r))),
                                    !.pc[r] = "load"]
    /\ UNCHANGED arrivalsUnchanged

\* await getConversationHistory(conversationId), de-duplication and parsing
ArrivalLoadHistory(r) ==
    /\ arrivals.pc[r] = "load"
    /\ arrivals' = [arrivals EXCEPT !.history[r] =
                        ParseRows(Deduplicate(arrivals.logs[arrivals.conversationId[r]])),
                                    !.pc[r] = "loaded"]
    /\ UNCHANGED arrivalsUnchanged

InitArrivals ==
    /\ arrivals = ArrivalsAt("arrived")
    /\ SessionState("exact", NoOther, << >>, Accepted(UserMessage), "absent", << >>)

NextArrivals ==
    \/ Tick
    \/ \E r \in NewRequests : AssignConversationId(r)
    \/ \E r \in NewRequests : ArrivalSaveUser(r)
    \/ \E r \in NewRequests : ArrivalLoadHistory(r)

SpecArrivals == InitArrivals /\ [][NextArrivals]_vars

-----------------------------------------------------------------------------
(* Properties *)

Ended == pc \in {"done", "failed"}
Terminal(e) == e.type \in {"end_turn", "error"}
LastEvent == events[Len(events)]
ToolResultTurns(text) ==
    { i \in 1..Len(conversationHistory) :
        /\ conversationHistory[i].type = "tool_result"
        /\ conversationHistory[i].body = << text >> }

\* The step hands the first pending call over to onToolUse (its arguments parse).
HandsOver ==
    /\ pc = "tools"
    /\ pendingCalls' = Tail(pendingCalls)
    /\ WellFormed(Head(pendingCalls).arguments)
HandedInput == JsonParse(Head(pendingCalls).arguments)

\* The (name, input) of the pending call was requested before in this session:
\* its first request sent a tool_use event.
RequestedBefore ==
    \E i \in 1..Len(events) :
        /\ events[i].type = "tool_use"
        /\ events[i].data = << Head(pendingCalls).name >>
        /\ events[i].input = HandedInput

\* The synthesized turn is appended to the history and written to the store
\* (the write is issued; the store may fail it).
AppendedAndPersisted(turn) ==
    /\ conversationHistory' = Append(conversationHistory, turn)
    /\ \/ store' = Append(store, Row(turn))
       \/ /\ dbFaults' = dbFaults + 1
          /\ store' = store

\* C1: every session run invokes the model finitely often and then ends with
\* end_turn or error, whatever the model answers (here: under weak fairness of
\* the session's steps, every behaviour reaches the end of handleChatSession).
C1_SessionTerminates == <>Ended

\* C2 (chat.jsx): of the requests with one tool name and one input, only the
\* first reaches a backend; a later one gets the synthesized duplicate turn,
\* appended to the history and persisted, with no backend call.
C2_DuplicateNotExecuted ==
    /\ [](\A i, j \in 1..Len(backendCalls) :
            (backendCalls[i].name = backendCalls[j].name
             /\ backendCalls[i].input = backendCalls[j].input) => i = j)
    /\ [][(HandsOver /\ RequestedBefore) =>
            /\ backendCalls' = backendCalls
            /\ UNCHANGED events
            /\ AppendedAndPersisted(DuplicateTurn(Head(pendingCalls).id))]_vars

C2_Witness == ToolResultTurns(DuplicateText) # {} /\ pc = "done"

\* C3: the number of real tool executions of a session never exceeds the total
\* cap (MAX_TOOL_ITERATIONS in chat.jsx), also when one response carries
\* several tool calls.
C3_TotalCap == Len(backendCalls) <= MAX_TOOL_ITERATIONS

\* C4 (part_003): no tool name is executed more than MAX_TOOL_CALLS_PER_TOOL
\* times; a request for a tool already executed that often gets the synthesized
\* 'Maximum search attempts reached' turn and no backend is contacted.
ExecutionsOf(name) == Cardinality({ i \in 1..Len(backendCalls) : backendCalls[i].name = name })

C4_PerToolCap ==
    /\ [](\A name \in ToolNames : ExecutionsOf(name) <= MAX_TOOL_CALLS_PER_TOOL)
    /\ [][(HandsOver /\ ExecutionsOf(Head(pendingCalls).name) >= MAX_TOOL_CALLS_PER_TOOL) =>
            /\ backendCalls' = backendCalls
            /\ UNCHANGED events
            /\ AppendedAndPersisted(CapTurn(Head(pendingCalls).id))]_vars

C4_Witness == ToolResultTurns(MaxAttemptsText) # {} /\ pc = "done"

\* C5: a session that stops because the tool-call cap was reached has persisted
\* the apology as an assistant turn and sent it as a chunk followed by
\* message_complete right before end_turn.
StoppedByCap == pc = "done" /\ needsContinuation /\ toolIterationCount >= MAX_TOOL_ITERATIONS

C5_CapEndsWithApology ==
    StoppedByCap =>
        /\ \E i \in 1..Len(store) : store[i] = Row(ApologyTurn)
        /\ Len(events) >= 3
        /\ events[Len(events) - 2] = Event("chunk", << ApologyText >>)
        /\ events[Len(events) - 1].type = "message_complete"
        /\ LastEvent.type = "end_turn"

C7_OneCompletionPerCall == pc = "while" => onMessageCalls = 1

\* C8: within a model round the chunk events sent are exactly the provider's
\* non-empty text deltas read so far, one event per delta, in arrival order.
RECURSIVE ChunkData(_)
ChunkData(evs) ==
    IF evs = << >> THEN << >>
    ELSE IF Head(evs).type = "chunk" THEN Head(evs).data \o ChunkData(Tail(evs))
    ELSE ChunkData(Tail(evs))

C8_ChunksAreDeltas ==
    pc \in {"stream", "tools", "while"} =>
        ChunkData(SubSeq(events, roundStart + 1, Len(events))) = roundDeltas

C8_Witness == pc = "stream" /\ Len(roundDeltas) = 2

\* C9: the first event of a session is the id event with the conversation id.
C9_IdFirst == events # << >> => events[1] = IdEvent

C9_Witness == ~mcpClient /\ useFallbackTools /\ Len(events) >= 2 /\ events[1] = IdEvent

\* C10: a session does not end its turn with an error outcome of a tool call as
\* the last turn of the history while the cap is not reached: the model is
\* invoked again with it.
C10_ErrorOutcomeFedBack ==
    ~ /\ pc = "done"
      /\ toolIterationCount < MAX_TOOL_ITERATIONS
      /\ conversationHistory # << >>
      /\ IsErrorTurn(conversationHistory[Len(conversationHistory)])

\* The step executes the handed-over call: it sends the tool_use event.
Executes == HandsOver /\ events' # events

ExecutionErrorTurns ==
    { i \in 1..Len(conversationHistory) :
        /\ IsErrorTurn(conversationHistory[i])
        /\ conversationHistory[i].body[2] = "execution_error" }

\* C11: an executed call whose backend throws, or that has no backend, hands
\* the tool error handler an execution_error with the call's id; the step sends
\* only the tool_use event, the session goes on with the stream, and a session
\* that has entered the loop never sends an error event and ends in end_turn.
C11_ToolThrowContained ==
    /\ [][Executes =>
            LET call == Head(pendingCalls) IN
            /\ events' = Append(events, ToolUseEvent(call.name, HandedInput))
            /\ pc' \in {"stream", "tools"}
            /\ \E turn \in {ResultTurn(call.id, call.name),
                             ErrorTurn(call.id, "api_error"),
                             ErrorTurn(call.id, "execution_error")} :
                 conversationHistory' = Append(conversationHistory, turn)
            /\ Backend(call.name) = "none" =>
                 conversationHistory' =
                     Append(conversationHistory, ErrorTurn(call.id, "execution_error"))]_vars
    /\ [](ExecutionErrorTurns # {} =>
            /\ pc \notin {"catch", "failed"}
            /\ \A i \in 1..Len(events) : events[i].type # "error"
            /\ pc = "done" => LastEvent.type = "end_turn")

C11_Witness ==
    /\ pc = "done"
    /\ ~mcpClient
    /\ ExecutionErrorTurns # {}
    /\ LastEvent.type = "end_turn"

\* C12: when the provider stream throws after text deltas were forwarded, the
\* step that handles the exception sends no error event and completes the
\* accumulated partial text as an assistant turn: the turn is appended to the
\* history, its store write is started, and message_complete is sent.
C12_StreamThrowCompleted ==
    [][(StreamThrow /\ roundDeltas # << >>) =>
        LET turn == AssistantTurn(filterSystemContent(fullContent))
            write == AssistantWrite(filterSystemContent(fullContent)) IN
        /\ conversationHistory' = Append(conversationHistory, turn)
        /\ pendingSaves' = Append(pendingSaves, write) \/ store' = Append(store, Row(write))
        /\ Len(events') > Len(events)
        /\ events'[Len(events')].type = "message_complete"
        /\ \A i \in 1..Len(events') : events'[i].type # "error"]_vars

\* The step is a store write that fails (the failing read is LoadHistory's).
WriteFails ==
    /\ dbFaults' = dbFaults + 1
    /\ ~(pc = "load" /\ pendingSaves' = pendingSaves)

\* C13: a failed store write (user turn, assistant turn, tool-outcome turn or
\* duplicate-blocked turn) is only logged: the step does not throw into the
\* session's catch and sends no error event.
C13_WriteFailureOnlyLogged ==
    [][WriteFails =>
        /\ pc' \notin {"catch", "failed"}
        /\ \A i \in 1..Len(events') : events'[i].type # "error"]_vars

\* A session is between the write of its user turn and its end.
InProgress == pc \in {"load", "loop", "stream", "tools", "while"}
OtherInProgress == other.pc \in {"load", "reply"}

\* C14: two sessions of one conversation are serialized: while one is between
\* its first store write and its end, the other performs no store operation,
\* so the two are never in progress together.
C14_SessionsSerialized == ~(InProgress /\ OtherInProgress)

\* Positions of a turn in the store.
StoredAt(turn) == { i \in 1..Len(store) : store[i] = Row(turn) }

\* C15: the assistant turn of a session is never stored after the user turn of
\* a later session (one that started when the first had sent end_turn).
C15_StoreKeepsAppendOrder ==
    other.later =>
        \A i \in StoredAt(OtherUserTurn) :
            \A j \in 1..Len(store) :
                (store[j].role = "assistant" /\ store[j] # Row(OtherAssistantTurn)) => j < i

NoAdjacentEqual(seq) == \A i \in 1..(Len(seq) - 1) : seq[i] # seq[i + 1]

\* The rows that start a run of equal (role, content) rows, in order.
RECURSIVE FirstsOfRuns(_)
FirstsOfRuns(rows) ==
    IF rows = << >> THEN << >>
    ELSE LET rest == FirstsOfRuns(Tail(rows)) IN
         IF Len(rows) >= 2 /\ rows[2] = rows[1] THEN << rows[1] >> \o Tail(rest)
         ELSE << rows[1] >> \o rest

\* C16: the history built from the stored rows has no two adjacent turns with
\* the same (role, content), and it is made of the first row of every run of
\* equal rows, in stored order.
C16_HistoryDeduplicated ==
    pc = "loop" =>
        /\ NoAdjacentEqual(conversationHistory)
        /\ conversationHistory = ParseRows(FirstsOfRuns(store))

\* C17: the snapshot a history fetch returns has no two adjacent turns with the
\* same (role, content).
C17_SnapshotDeduplicated ==
    response.status = 200 => NoAdjacentEqual(response.messages)

Discovered == pc # "discover"
SourceTools == sources.storefront.tools \o sources.customer.tools

\* C18: after discovery the offered tool set is not empty; it is exactly the
\* built-in search_shop_catalog descriptor when the client could not be
\* constructed or both sources gave no tool, and exactly the tools of the
\* sources (nothing added) when a source gave one.
C18_ToolSetNeverEmpty ==
    Discovered =>
        /\ availableTools # << >>
        /\ (~mcpClient \/ SourceTools = << >>) => availableTools = << SearchTool >>
        /\ (mcpClient /\ SourceTools # << >>) => availableTools = SourceTools

C18_Witness ==
    /\ pc = "done"
    /\ mcpClient
    /\ ~sources.storefront.failed /\ sources.customer.failed
    /\ SourceTools = << >>
    /\ availableTools = << SearchTool >>

ExactlyOneSourceFailed ==
    /\ sources.asked
    /\ sources.storefront.failed # sources.customer.failed

\* C19: when exactly one source fails to connect, the tools of the other are
\* offered (unless it gave none), the session goes on to the id event, and an
\* error event is sent only after a store operation failed.
C19_OneSourceFailureTolerated ==
    (Discovered /\ ExactlyOneSourceFailed) =>
        /\ SourceTools # << >> => availableTools = SourceTools
        /\ pc = "send_id" => events = << >>
        /\ pc \notin {"send_id", "catch", "failed"} => events[1] = IdEvent
        /\ pc \in {"catch", "failed"} => dbFaults > 0

C19_Witness ==
    /\ pc = "done"
    /\ sources.storefront.failed /\ ~sources.customer.failed
    /\ availableTools = << OrderTool >>
    /\ events[1] = IdEvent
    /\ \E i \in 1..Len(backendCalls) : backendCalls[i].name = OrderTool

AllSourcesFailed ==
    \/ ~mcpClient
    \/ sources.asked /\ sources.storefront.failed /\ sources.customer.failed

\* C20: when all capability sources failed, a search_shop_catalog request is
\* executed by the fallback search and never by the MCP client, and gives
\* exactly one outcome turn: the content result or a structured error of type
\* api_error or execution_error; searchProductsFallback returns for every
\* answer of its collaborators.
C20_FallbackPathResolves ==
    /\ [](\A a \in AuthAnswers, r \in GraphqlReplies :
            searchProductsFallback(a, r) \in {"content", "error", "caught"})
    /\ []((Discovered /\ AllSourcesFailed) =>
            \A i \in 1..Len(backendCalls) :
                backendCalls[i].name = SearchTool => backendCalls[i].backend = "fallback")
    /\ [][(Executes /\ AllSourcesFailed /\ Head(pendingCalls).name = SearchTool) =>
            LET call == Head(pendingCalls) IN
            /\ backendCalls' = Append(backendCalls, [backend |-> "fallback",
                                                      name |-> call.name,
                                                      input |-> HandedInput])
            /\ pc' \in {"stream", "tools"}
            /\ \E turn \in {ResultTurn(call.id, call.name),
                             ErrorTurn(call.id, "api_error"),
                             ErrorTurn(call.id, "execution_error")} :
                 conversationHistory' = Append(conversationHistory, turn)]_vars

C20_Witness ==
    /\ pc = "done"
    /\ mcpClient
    /\ AllSourcesFailed
    /\ ExecutionErrorTurns # {}
    /\ \E i \in 1..Len(backendCalls) : backendCalls[i].backend = "fallback"

\* The outcome turn the step appends to the history is a structured error.
AppendsErrorTurn ==
    /\ Len(conversationHistory') = Len(conversationHistory) + 1
    /\ IsErrorTurn(conversationHistory'[Len(conversationHistory')])

\* C21: an executed search_shop_catalog call is answered with an error only
\* when the fallback search was the last backend tried for it: a failing MCP
\* call is followed by the fallback search.
C21_FailedMcpSearchFallsBack ==
    [][(Executes /\ Head(pendingCalls).name = SearchTool /\ AppendsErrorTurn) =>
        /\ backendCalls' # << >>
        /\ backendCalls'[Len(backendCalls')].backend = "fallback"]_vars

AssistantRows == { i \in 1..Len(store) : store[i].role = "assistant" }
ToolUseEvents == { i \in 1..Len(events) : events[i].type = "tool_use" }
AssistantTurns ==
    { i \in 1..Len(conversationHistory) : conversationHistory[i].role = "assistant" }

\* Scenario A has run to its end: no source gave a tool, the model requested no
\* tool and finished with 'stop', and the store served every operation.
ScenarioA ==
    /\ pc = "done"
    /\ SourceTools = << >>
    /\ ToolUseEvents = {} /\ ToolResultTurns(DuplicateText) = {}
    /\ AssistantTurns # {}
    /\ dbFaults = 0 /\ pendingSaves = << >>

\* C23: in scenario A the model was invoked once, the events are id, the
\* chunks, message_complete, end_turn, and the store holds exactly one
\* assistant turn, whose text is the text of the chunks.
C23_ScenarioA ==
    ScenarioA =>
        /\ modelCalls = 1
        /\ Len(events) >= 3
        /\ events[1] = IdEvent
        /\ \A i \in 2..(Len(events) - 2) : events[i].type = "chunk"
        /\ events[Len(events) - 1] = Event("message_complete", << >>)
        /\ events[Len(events)] = Event("end_turn", << >>)
        /\ Cardinality(AssistantRows) = 1
        /\ \A i \in AssistantRows : store[i] = Row(AssistantWrite(ChunkData(events)))

C23_Witness == ScenarioA /\ Len(events) = 4 /\ availableTools = << SearchTool >>

\* The provider has been given the messages of the current call.
Invoked == pc = "stream"

EmptyContent(i) == convertedMessages[i].content = << >>

\* C24: for every history, convertToOpenAIFormat returns no message with
\* empty content other than role 'tool' messages and assistant messages that
\* carry tool_calls.
C24_NoEmptyContent ==
    Invoked =>
        \A i \in 1..Len(convertedMessages) :
            EmptyContent(i) =>
                \/ convertedMessages[i].role = "tool"
                \/ convertedMessages[i].role = "assistant" /\ convertedMessages[i].tool_calls

\* A history with a blank text turn, a tool message and an assistant message
\* with tool calls: the blank turn is gone, the two others are kept empty.
C24_Witness ==
    /\ Invoked
    /\ conversationHistory = << Turn("user", "text", "", << Whitespace >>),
                                Turn("assistant", "tool_calls", "", << >>),
                                Turn("tool", "text", "call1_0", << >>) >>
    /\ Len(convertedMessages) = 2
    /\ \A i \in 1..2 : EmptyContent(i)

\* The step calls streamConversation: the history is normalized and given to
\* the provider.
Invokes == pc = "loop" /\ pc' = "stream"

\* The provider message m shows the outcome carried by the tool-result turn.
ShowsOutcome(m, turn) ==
    /\ m.content # << >>
    /\ \A k \in 1..Len(turn.body) : \E n \in 1..Len(m.content) : m.content[n] = turn.body[k]

\* C25: when the model is invoked, every tool-result turn of the history, the
\* role-'user' turns made of a tool_result block that the orchestrator appends
\* for blocked calls included, is mapped to a message given to the provider.
C25_OutcomesReachProvider ==
    [][Invokes =>
        \A i \in 1..Len(conversationHistory) :
            conversationHistory[i].type = "tool_result" =>
                \E j \in 1..Len(convertedMessages') :
                    ShowsOutcome(convertedMessages'[j], conversationHistory[i])]_vars

OutcomeTurns(history) == { i \in 1..Len(history) : history[i].type = "tool_result" }

\* C26: a request delivered to onToolUse appends exactly one outcome turn, for
\* its call id, in the step that handles it (so before streamConversation is
\* called again), and no other step adds or removes an outcome turn.
C26_OneOutcomePerRequest ==
    [][/\ HandsOver =>
            /\ Len(conversationHistory') = Len(conversationHistory) + 1
            /\ SubSeq(conversationHistory', 1, Len(conversationHistory)) = conversationHistory
            /\ conversationHistory'[Len(conversationHistory')].type = "tool_result"
            /\ conversationHistory'[Len(conversationHistory')].id = Head(pendingCalls).id
       /\ ~HandsOver =>
            Cardinality(OutcomeTurns(conversationHistory')) =
            Cardinality(OutcomeTurns(conversationHistory))]_vars

\* A session with a successful, a failed and a duplicate-blocked request, in
\* which the model has been invoked again.
C26_Witness ==
    /\ modelCalls = 2
    /\ ToolResultTurns(DuplicateText) # {}
    /\ \E i \in OutcomeTurns(conversationHistory) : IsErrorTurn(conversationHistory[i])
    /\ \E i \in OutcomeTurns(conversationHistory) :
           conversationHistory[i] = ResultTurn("call1_0", SearchTool)

\* The tool-call deltas of the chunks received in the current call, in
\* arrival order.
RECURSIVE DeltasOf(_)
DeltasOf(chunks) ==
    IF chunks = << >> THEN << >>
    ELSE Head(chunks).tool_calls \o DeltasOf(Tail(chunks))

\* The concatenation, in arrival order, of the argument fragments received
\* for call index i.
RECURSIVE Concatenated(_)
Concatenated(deltas) ==
    IF deltas = << >> THEN << >>
    ELSE Head(deltas).arguments \o Concatenated(Tail(deltas))

ReceivedFor(i) == SelectSeq(DeltasOf(roundChunks), LAMBDA d : d.index = i)
ArgumentsOf(i) == Concatenated(ReceivedFor(i))

\* The pending call is the call of index i: it has the id of the first delta
\* of that index and exactly the arguments received for it.
IsCallOf(call, i) ==
    /\ ReceivedFor(i) # << >>
    /\ call.id = Head(ReceivedFor(i)).id
    /\ call.arguments = ArgumentsOf(i)

\* C27: calls are handed to onToolUse only after a chunk with finish_reason
\* 'tool_calls'; every call waiting to be handed over has the arguments
\* received for one call index, concatenated in arrival order, and they are
\* not empty; a handed-over call has the input parsed from them; a call whose
\* arguments do not parse is skipped without any effect.
C27_DeliveredInputIsParsedFragments ==
    [][pc = "tools" =>
        /\ roundChunks # << >>
        /\ roundChunks[Len(roundChunks)].finish_reason = "tool_calls"
        /\ \A k \in 1..Len(pendingCalls) :
              /\ pendingCalls[k].arguments # << >>
              /\ \E i \in {0, 1} : IsCallOf(pendingCalls[k], i)
        /\ HandsOver =>
              \E i \in {0, 1} :
                /\ IsCallOf(Head(pendingCalls), i)
                /\ WellFormed(ArgumentsOf(i))
                /\ ToolCallKey(Head(pendingCalls).name, JsonParse(ArgumentsOf(i)))
                      \in usedToolCalls'
                /\ Executes =>
                      events'[Len(events')].input = JsonParse(ArgumentsOf(i))
        /\ ~WellFormed(Head(pendingCalls).arguments) =>
              UNCHANGED << events, conversationHistory, usedToolCalls, backendCalls >>]_vars

\* Two calls whose fragments arrived interleaved have been handed over, each
\* with its own input.
C27_Witness ==
    /\ Len(roundChunks) = 3
    /\ Len(ReceivedFor(0)) = 2
    /\ Len(ReceivedFor(1)) = 2
    /\ ToolCallKey(SearchTool, << QueryX >>) \in usedToolCalls
    /\ ToolCallKey(OrderTool, << QueryY >>) \in usedToolCalls
    /\ pendingCalls = << >>

\* The rows the store held before the session wrote its user turn (no other
\* writer: the session's write is the last row).
StoredBefore == SubSeq(store, 1, Len(store) - 1)

\* C28: the history given to the model is the collapsed stored history
\* followed by the new user turn as a turn of its own, which de-duplication
\* does not remove even when the last stored turn is an equal user turn.
C28_UserTurnAppendedAfterCollapse ==
    pc = "loop" =>
        conversationHistory = Append(ParseRows(Deduplicate(StoredBefore)), UserTurn)

\* Two parsed inputs are equal as structured values: the same keys with the
\* same values, in whatever order.
SameValue(a, b) == { a[i] : i \in 1..Len(a) } = { b[i] : i \in 1..Len(b) }

\* The tool of the pending call was requested before in this session with an
\* input equal, as a structured value, to the pending one.
RequestedBeforeAsValue ==
    \E i \in 1..Len(events) :
        /\ events[i].type = "tool_use"
        /\ events[i].data = << Head(pendingCalls).name >>
        /\ SameValue(events[i].input, HandedInput)

\* C29: a request whose tool and input (as a structured value, whatever the
\* order of its keys) were requested before is blocked as a duplicate: it is
\* not executed and the duplicate turn is appended.
C29_KeyOrderIgnored ==
    [][(HandsOver /\ RequestedBeforeAsValue) =>
        /\ events' = events
        /\ backendCalls' = backendCalls
        /\ conversationHistory' =
              Append(conversationHistory, DuplicateTurn(Head(pendingCalls).id))]_vars

\* The step delivers the final message to onMessage (turn-complete).
TurnCompletes == onMessageCalls' = onMessageCalls + 1

\* The events the step sends.
SentByStep == SubSeq(events', Len(events) + 1, Len(events'))

ProductsEvent(items) == [type |-> "products", data |-> items, input |-> << >>]

\* C30: on turn-complete, a non-empty product accumulator is sent in exactly
\* one products event, directly followed by message_complete, and is empty
\* afterwards; with an empty accumulator only message_complete is sent.
C30_ProductsBeforeComplete ==
    [][TurnCompletes =>
        /\ SentByStep =
              IF productsToDisplay # << >>
              THEN << ProductsEvent(productsToDisplay), Event("message_complete", << >>) >>
              ELSE << Event("message_complete", << >>) >>
        /\ productsToDisplay' = << >>]_vars

\* A turn completed after a successful tool call: the products event with the
\* call's items precedes message_complete and the accumulator is empty.
C30_Witness ==
    /\ pc = "while"
    /\ Len(events) >= 2
    /\ events[Len(events) - 1] = ProductsEvent(<< "call1_0" >>)
    /\ events[Len(events)].type = "message_complete"
    /\ productsToDisplay = << >>

\* The step executes the pending call and hands its result to
\* handleToolSuccess.
Succeeds ==
    /\ Executes
    /\ Len(conversationHistory') = Len(conversationHistory) + 1
    /\ ~IsErrorTurn(conversationHistory'[Len(conversationHistory')])

\* C31: whatever the shape of a non-error backend result (string content,
\* block-array content, bare object), what is passed to the tool success
\* handler is an envelope of exactly one block of type text whose text is a
\* string.
C31_OneTextBlock ==
    [][Succeeds =>
        /\ toolResult' \in AllResults
        /\ Len(formattedResult'.content) = 1
        /\ formattedResult'.content[1].type = "text"
        /\ formattedResult'.content[1].text.typeof = "string"]_vars

BareWithProduct == BareResult(1)
BlocksWithProduct == BlocksResult(1)

\* A bare object and a block array have been handed on as text.
C31_Witness ==
    /\ toolResult \in {BareWithProduct, BlocksWithProduct}
    /\ formattedResult.content # << >>
    /\ formattedResult.content[1].text.json # << >>
    /\ pc = "done"

\* The results of a search that found nothing, in the three shapes: JSON
\* string content, block-array content, bare object.
EmptySearchResults == { StringResult(0), BlocksResult(0), BareResult(0) }

CarriesInstruction(envelope) ==
    /\ envelope.content # << >>
    /\ \E i \in 1..Len(envelope.content[1].text.json) :
           envelope.content[1].text.json[i] = DoNotSearchAgain

\* C37: a search_shop_catalog execution that returns zero products, in any of
\* the three shapes and from either backend, hands on an outcome that carries
\* the do-not-search-again instruction.
C37_EmptySearchInstructed ==
    [][(Succeeds /\ Head(pendingCalls).name = SearchTool
                 /\ toolResult' \in EmptySearchResults) =>
        CarriesInstruction(formattedResult')]_vars

\* The step is a request given to onToolUse of the second invocation.
OtherHandles == other.pc = "tools" /\ Len(other'.requested) = Len(other.requested) + 1
OtherRequestedBefore ==
    \E i \in 1..Len(other.requested) :
        other.requested[i] = other'.requested[Len(other'.requested)]
OtherExecutes == OtherHandles /\ Len(other'.executed) = Len(other.executed) + 1

SearchX == ToolCallKey(SearchTool, << QueryX >>)

\* C32: a request is blocked or counted only because of requests of its own
\* session: in either invocation a request whose fingerprint the invocation
\* has not recorded itself is executed, whatever the other one has recorded,
\* and each counter counts the fingerprints of its own invocation.
C32_GuardStatePerSession ==
    [][/\ (HandsOver /\ ~RequestedBefore) => Executes
       /\ (HandsOver /\ RequestedBefore) => UNCHANGED << usedToolCalls, toolIterationCount >>
       /\ HandsOver => other' = other
       /\ OtherHandles =>
            /\ UNCHANGED << usedToolCalls, toolIterationCount >>
            /\ OtherExecutes <=> ~OtherRequestedBefore
            /\ OtherExecutes =>
                  other'.executed[Len(other'.executed)] =
                  other'.requested[Len(other'.requested)]
            /\ other'.toolIterationCount = Cardinality(other'.usedToolCalls)
       /\ toolIterationCount' = Cardinality(usedToolCalls')]_vars

\* The same search has been executed by both invocations, once with the
\* second running while the first is in progress.
C32_Witness ==
    /\ SearchX \in usedToolCalls
    /\ other.executed = << SearchX >>
    /\ other.requested = << SearchX, SearchX >>
    /\ ~other.later
    /\ \E i \in 1..Len(backendCalls) : backendCalls[i].input = << QueryX >>

\* The ids of the calls the provider requested in the current round.
RoundCallIds ==
    { DeltasOf(roundChunks)[k].id : k \in 1..Len(DeltasOf(roundChunks)) } \ {""}

\* In the current round a request was blocked as a duplicate or executed with
\* a non-error result: its outcome turn is in the history and is not an error.
RoundHasNonError ==
    \E i \in OutcomeTurns(conversationHistory) :
        /\ conversationHistory[i].id \in RoundCallIds
        /\ ~IsErrorTurn(conversationHistory[i])

\* C33: at the end of a round the loop goes on to another model invocation
\* exactly if the round had a duplicate-blocked request or a non-error
\* execution and toolIterationCount is below MAX_TOOL_ITERATIONS.
C33_ContinuesIffProgress ==
    [][(pc = "while" /\ pc' # "while") =>
        ((pc' = "loop") <=>
            (RoundHasNonError /\ toolIterationCount < MAX_TOOL_ITERATIONS))]_vars

\* C34 (chat.jsx): in every reachable state toolIterationCount is the number of
\* fingerprints in usedToolCalls and the number of tool_use events sent so far,
\* and a request blocked as a duplicate changes none of the three.
C34_CountersAgree ==
    /\ [](/\ toolIterationCount = Cardinality(usedToolCalls)
          /\ toolIterationCount = Cardinality(ToolUseEvents))
    /\ [][(HandsOver /\ RequestedBefore) =>
            /\ UNCHANGED << usedToolCalls, toolIterationCount >>
            /\ ToolUseEvents' = ToolUseEvents]_vars

C34_Witness ==
    /\ ToolResultTurns(DuplicateText) # {}
    /\ toolIterationCount = 2
    /\ Cardinality(usedToolCalls) = 2
    /\ Cardinality(ToolUseEvents) = 2

\* The orchestrator's first call of streamConversation in this session.
FirstModelCall == pc = "loop" /\ pc' = "stream" /\ modelCalls = 0

\* C35: whatever its text, the user message submitted in the session is one of
\* the messages given to the model in the first round: neither the parsing of
\* stored content nor the filters of convertToOpenAIFormat remove it.
C35_UserMessageSent ==
    [][FirstModelCall =>
        \E i \in 1..Len(convertedMessages') :
            /\ convertedMessages'[i].role = "user"
            /\ convertedMessages'[i].content = << request.message >>]_vars

\* C36: a session never ends with end_turn while products a tool execution
\* added to the accumulator are still unsent, also when the loop stops because
\* the tool-call cap was reached.
C36_ProductsSentBeforeEnd ==
    (events # << >> /\ LastEvent.type = "end_turn") => productsToDisplay = << >>

\* The turns that executions appended to the history, in order: the k-th is
\* the outcome of the call announced by the k-th tool_use event.
ExecutionOutcomes ==
    SelectSeq(conversationHistory,
              LAMBDA t : t.type = "tool_result" /\ t.body # << DuplicateText >>)
ToolUseSent == SelectSeq(events, LAMBDA e : e.type = "tool_use")

\* The (name, input) of the pending call was executed before in this session
\* and that execution ended in an error.
FailedBefore ==
    \E k \in 1..Len(ToolUseSent) :
        /\ ToolUseSent[k].data = << Head(pendingCalls).name >>
        /\ ToolUseSent[k].input = HandedInput
        /\ k <= Len(ExecutionOutcomes)
        /\ IsErrorTurn(ExecutionOutcomes[k])

\* C38 (chat.jsx): the fingerprint is recorded and the counter incremented in
\* the step that executes a call, whatever the execution's outcome, so the
\* repeat of a call whose execution ended in an error is not executed: it gets
\* the synthesized duplicate-blocked turn.
C38_FailedCallNotRetried ==
    [][/\ Executes =>
            /\ ToolCallKey(Head(pendingCalls).name, HandedInput) \in usedToolCalls'
            /\ toolIterationCount' = toolIterationCount + 1
       /\ (HandsOver /\ FailedBefore) =>
            /\ backendCalls' = backendCalls
            /\ UNCHANGED events
            /\ conversationHistory' =
                  Append(conversationHistory, DuplicateTurn(Head(pendingCalls).id))]_vars

\* Every execution so far ended in an error, and a repeat was blocked.
C38_Witness ==
    /\ ToolUseSent # << >>
    /\ Len(ExecutionOutcomes) = Len(ToolUseSent)
    /\ \A k \in 1..Len(ExecutionOutcomes) : IsErrorTurn(ExecutionOutcomes[k])
    /\ backendCalls # << >>
    /\ ToolResultTurns(DuplicateText) # {}

\* C39 (chat.jsx): two submit requests that carry no conversation_id get
\* different conversation identifiers, also when they arrive concurrently, so
\* neither conversation's turn log and built history holds the other's turn.
C39_DistinctConversationIds ==
    \A r1, r2 \in NewRequests :
        (r1 # r2 /\ arrivals.conversationId[r1] # "") =>
            /\ arrivals.conversationId[r1] # arrivals.conversationId[r2]
            /\ \A i \in 1..Len(arrivals.logs[arrivals.conversationId[r1]]) :
                  arrivals.logs[arrivals.conversationId[r1]][i] # Row(ArrivalTurn(r2))
            /\ \A i \in 1..Len(arrivals.history[r1]) :
                  arrivals.history[r1][i] # ArrivalTurn(r2)

====
